---- MODULE Spec2Model ----
(***************************************************************************)
(* A model of BigramAnalyzer (src/src/bigram_analyzer.py) and of the NLTK  *)
(* collocation finder it delegates to.  One analyzer instance is owned by  *)
(* one caller (src/simple_run.py), which holds a token list and applies    *)
(* the analyzer's methods to it.                                           *)
(*                                                                         *)
(* Scores are real numbers in the program (IEEE doubles).  The model keeps *)
(* every score exact, as a tagged pair of integers (see the scores        *)
(* section), and compares scores exactly.  The 1e-20 smoothing terms of    *)
(* NLTK are below the rounding of every score reachable here and are left  *)
(* out.  Two scores equal as reals are equal in the model; the program may *)
(* tell them apart when their doubles were rounded along different paths.  *)
(*                                                                         *)
(* Spec is an analyzer used in any order by its owner; SpecRank applies    *)
(* the methods that take a token list to longer lists, with no extraction; *)
(* SpecTop extracts into a longer log and asks for the top bigrams only.   *)
(***************************************************************************)
EXTENDS Integers, Sequences, FiniteSets, TLC

\* ---------------------------------------------------------------- bounds
Tokens == {"a", "b"}
RankTokens == {"a", "b", "c"}
MaxLen == 2      \* longest generated token list handed to a stateful analyzer
MaxRankLen == 3  \* longest generated token list handed to the rankings alone
MaxLog == 2      \* cap on len(self.bigrams)
MaxTopLog == 3   \* cap on len(self.bigrams) where only the top bigrams are asked for
MaxTopN == 2     \* largest n passed to get_top_bigrams / find_collocations
MaxMinFreq == 2  \* largest min_freq passed to find_collocations

\* The two worked examples of the specification (section 8), and the shortest
\* list with two different bigrams.
TokensABABC == <<"a", "b", "a", "b", "c">>
TokensTheCat == <<"the", "cat", "sat", "the", "cat", "ran">>
TokensABA == <<"a", "b", "a">>

RECURSIVE SeqsUpTo(_, _)
SeqsUpTo(S, n) ==
    IF n = 0 THEN {<<>>}
    ELSE LET shorter == SeqsUpTo(S, n - 1)
         IN  shorter \cup {Append(s, x) : s \in {t \in shorter : Len(t) = n - 1}, x \in S}

TokenLists == SeqsUpTo(Tokens, MaxLen) \cup {TokensABA}
RankTokenLists == SeqsUpTo(RankTokens, MaxRankLen) \cup {TokensABABC, TokensTheCat}

VARIABLES
    tokens,       \* the caller's current token list
    bigrams,      \* self.bigrams: the cumulative bigram log
    bigram_freq,  \* self.bigram_freq: Counter, as <<key, count>> pairs in insertion order
    op,           \* the method called last
    args,         \* its arguments other than tokens
    result        \* what it returned or raised

vars == <<tokens, bigrams, bigram_freq, op, args, result>>

\* ------------------------------------------------------ Python primitives
\* Python's str ordering on the tokens of the model.
TokenRank(t) ==
    CASE t = "a" -> 1 [] t = "b" -> 2 [] t = "c" -> 3 [] t = "cat" -> 4
      [] t = "ran" -> 5 [] t = "sat" -> 6 [] t = "the" -> 7

\* Python's tuple ordering on bigrams: bg1 < bg2.
TupleLess(bg1, bg2) ==
    \/ TokenRank(bg1[1]) < TokenRank(bg2[1])
    \/ bg1[1] = bg2[1] /\ TokenRank(bg1[2]) < TokenRank(bg2[2])

Returned(v) == [status |-> "ok", value |-> v]
Raised(e) == [status |-> "raise", error |-> e]
NoArgs == [none |-> TRUE]

\* collections.Counter: c[key], 0 when absent.
CounterGet(c, key) ==
    IF \E i \in 1..Len(c) : c[i][1] = key
    THEN c[CHOOSE i \in 1..Len(c) : c[i][1] = key][2]
    ELSE 0

CounterKeys(c) == {c[i][1] : i \in 1..Len(c)}

\* c[key] += 1: a new key goes to the end of the dict.
CounterIncr(c, key) ==
    IF \E i \in 1..Len(c) : c[i][1] = key
    THEN [i \in 1..Len(c) |-> IF c[i][1] = key THEN <<key, c[i][2] + 1>> ELSE c[i]]
    ELSE Append(c, <<key, 1>>)

\* A plausible slip: update() replaced by rebuilding the counter from the new items.
RECURSIVE CounterUpdate_Rebuild(_, _)
CounterUpdate_Rebuild(c, items) ==
    IF items = <<>> THEN <<>>
    ELSE CounterIncr(CounterUpdate_Rebuild(c, SubSeq(items, 1, Len(items) - 1)),
                     items[Len(items)])

\* Counter.update(iterable): one increment per item, in order.
RECURSIVE CounterUpdate(_, _)
CounterUpdate(c, items) ==
    IF items = <<>> THEN c
    ELSE CounterUpdate(CounterIncr(c, Head(items)), Tail(items))

\* Counter.most_common(n): sorted by count, largest first, equal counts in
\* insertion order (a stable sort), cut to n.
RECURSIVE InsertByCount(_, _)
InsertByCount(x, s) ==
    IF s = <<>> THEN <<x>>
    ELSE IF x[2] > Head(s)[2] THEN <<x>> \o s
    ELSE <<Head(s)>> \o InsertByCount(x, Tail(s))

RECURSIVE SortedByCount(_)
SortedByCount(c) ==
    IF c = <<>> THEN <<>>
    ELSE InsertByCount(c[Len(c)], SortedByCount(SubSeq(c, 1, Len(c) - 1)))

\* A plausible slip: the first n items in table order, unsorted.
most_common_TableOrder(c, n) == SubSeq(c, 1, IF n < Len(c) THEN n ELSE Len(c))

most_common(c, n) ==
    LET s == SortedByCount(c)
    IN  SubSeq(s, 1, IF n < Len(s) THEN n ELSE Len(s))

\* A plausible slip: windows that do not overlap (step 2 instead of 1).
RECURSIVE nltk_bigrams_Step2(_)
nltk_bigrams_Step2(toks) ==
    IF Len(toks) < 2 THEN <<>>
    ELSE <<<<toks[1], toks[2]>>>> \o nltk_bigrams_Step2(Tail(Tail(toks)))

\* list(nltk.bigrams(tokens)): a window of two sliding over the tokens.
RECURSIVE nltk_bigrams(_)
nltk_bigrams(toks) ==
    IF Len(toks) < 2 THEN <<>>
    ELSE <<<<toks[1], toks[2]>>>> \o nltk_bigrams(Tail(toks))

\* ------------------------------------------------------------------ scores
\* A score is [kind, p, q, r], an exact real:
\*   "ratio": p / q            "log2": log2(p / q)
\*   "2ln":   2 * ln(p / q)    "t":    p / (q * sqrt(r))
\*   "sqrt":  sqrt(p / q)
\* with q > 0 and r > 0; p / q is kept in lowest terms.
RECURSIVE GCD(_, _)
GCD(m, n) == IF n = 0 THEN m ELSE GCD(n, m % n)

RECURSIVE Pow(_, _)
Pow(b, e) == IF e = 0 THEN 1 ELSE b * Pow(b, e - 1)

Frac(kind, p, q) ==
    LET g == GCD(IF p < 0 THEN -p ELSE p, q)
    IN  [kind |-> kind, p |-> p \div g, q |-> q \div g, r |-> 1]

Sign(x) == IF x < 0 THEN -1 ELSE IF x = 0 THEN 0 ELSE 1

\* s1 < s2, for two scores of one kind.
ScoreLess(s1, s2) ==
    IF s1.kind = "t"
    THEN LET a1 == Sign(s1.p) * s1.p * s1.p * s2.q * s2.q * s2.r
             a2 == Sign(s2.p) * s2.p * s2.p * s1.q * s1.q * s1.r
         IN  a1 < a2
    ELSE s1.p * s2.q < s2.p * s1.q

ScoreEq(s1, s2) == ~ScoreLess(s1, s2) /\ ~ScoreLess(s2, s1)

\* ------------------------------------------- nltk BigramAssocMeasures
\* Every measure takes (n_ii, (n_ix, n_xi), n_xx): the bigram's count, the
\* counts of its two words, and the number of words.

\* BigramAssocMeasures._contingency: (n_ii, n_oi, n_io, n_oo).
Contingency(n_ii, n_ix, n_xi, n_xx) ==
    LET n_oi == n_xi - n_ii
        n_io == n_ix - n_ii
    IN  <<n_ii, n_oi, n_io, n_xx - n_ii - n_oi - n_io>>

\* NgramAssocMeasures._expected_values, times n_all: for the k-th cell of the
\* contingency tuple, the product of the two marginal sums it lies in.
ExpectedTimesN(cont, k) ==
    LET m1 == IF k \in {2, 4} THEN cont[2] + cont[4] ELSE cont[1] + cont[3]
        m2 == IF k \in {3, 4} THEN cont[3] + cont[4] ELSE cont[1] + cont[2]
    IN  m1 * m2

\* raw_freq: marginals[NGRAM] / marginals[TOTAL].
raw_freq(n_ii, n_ix, n_xi, n_xx) == Returned(Frac("ratio", n_ii, n_xx))

\* A plausible slip: the marginals swapped with the joint count.
pmi_Inverted(n_ii, n_ix, n_xi, n_xx) == Returned(Frac("log2", n_ix * n_xi, n_ii * n_xx))

\* pmi: log2(n_ii * n_xx) - log2(n_ix * n_xi).
pmi(n_ii, n_ix, n_xi, n_xx) == Returned(Frac("log2", n_ii * n_xx, n_ix * n_xi))

\* student_t: (n_ii - n_ix * n_xi / n_xx) / sqrt(n_ii).
student_t(n_ii, n_ix, n_xi, n_xx) ==
    Returned([kind |-> "t", p |-> n_ii * n_xx - n_ix * n_xi, q |-> n_xx, r |-> n_ii])

\* chi_sq: n_xx * phi_sq; phi_sq divides by the product of the four marginal
\* sums and raises ZeroDivisionError when one of them is 0.
chi_sq(n_ii, n_ix, n_xi, n_xx) ==
    LET cont == Contingency(n_ii, n_ix, n_xi, n_xx)
        p_ii == cont[1]
        p_io == cont[2]
        p_oi == cont[3]
        p_oo == cont[4]
        den == (p_ii + p_io) * (p_ii + p_oi) * (p_io + p_oo) * (p_oi + p_oo)
        d == p_ii * p_oo - p_io * p_oi
    IN  IF den = 0 THEN Raised("ZeroDivisionError")
        ELSE Returned(Frac("ratio", n_xx * d * d, den))

\* likelihood_ratio: 2 * sum(obs * ln(obs / exp)) over the four cells, which is
\* 2 * ln(product((obs / exp) ^ obs)); math.log raises ValueError on the
\* negative argument a negative cell gives.  A cell of 0 adds 0.
likelihood_ratio(n_ii, n_ix, n_xi, n_xx) ==
    LET cont == Contingency(n_ii, n_ix, n_xi, n_xx)
        num == [i \in 1..4 |-> Pow(cont[i] * n_xx, cont[i])]
        den == [i \in 1..4 |-> Pow(ExpectedTimesN(cont, i), cont[i])]
    IN  IF \E i \in 1..4 : cont[i] < 0 THEN Raised("ValueError")
        ELSE Returned(Frac("2ln", num[1] * num[2] * num[3] * num[4],
                                  den[1] * den[2] * den[3] * den[4]))

Measures == {"pmi", "chi_square", "likelihood_ratio", "student_t", "raw_freq"}

ApplyMeasure(m, n_ii, n_ix, n_xi, n_xx) ==
    CASE m = "pmi" -> pmi(n_ii, n_ix, n_xi, n_xx)
      [] m = "chi_square" -> chi_sq(n_ii, n_ix, n_xi, n_xx)
      [] m = "likelihood_ratio" -> likelihood_ratio(n_ii, n_ix, n_xi, n_xx)
      [] m = "student_t" -> student_t(n_ii, n_ix, n_xi, n_xx)
      [] m = "raw_freq" -> raw_freq(n_ii, n_ix, n_xi, n_xx)

\* ------------------------------------- nltk BigramCollocationFinder
\* A plausible slip: the finder built over the analyzer's cumulative table.
\* from_words(words): word_fd counts every word, ngram_fd every adjacent pair
\* (keys in order of first occurrence); N is word_fd.N(), the number of words.
Finder_FromLog(words) ==
    [word_fd |-> CounterUpdate(<<>>, words),
     ngram_fd |-> bigram_freq,
     N |-> Len(words)]

\* A plausible slip: word_fd counts the first word of every pair only, so the
\* last word of the list is missed.
from_words_LeftWordsOnly(words) ==
    [word_fd |-> CounterUpdate(<<>>, SubSeq(words, 1, Len(words) - 1)),
     ngram_fd |-> CounterUpdate(<<>>, nltk_bigrams(words)),
     N |-> Len(words)]

from_words(words) ==
    [word_fd |-> CounterUpdate(<<>>, words),
     ngram_fd |-> CounterUpdate(<<>>, nltk_bigrams(words)),
     N |-> Len(words)]

\* A plausible slip: the threshold compared with <= (drops freq = min_freq).
apply_freq_filter_Strict(finder, min_freq) ==
    [finder EXCEPT !.ngram_fd = SelectSeq(finder.ngram_fd, LAMBDA e : ~(e[2] <= min_freq))]

\* apply_freq_filter(min_freq): drops the ngrams with freq < min_freq.
apply_freq_filter(finder, min_freq) ==
    [finder EXCEPT !.ngram_fd = SelectSeq(finder.ngram_fd, LAMBDA e : ~(e[2] < min_freq))]

\* score_ngram(score_fn, w1, w2) for the i-th key of ngram_fd.
score_ngram(finder, m, i) ==
    LET bg == finder.ngram_fd[i][1]
    IN  ApplyMeasure(m, finder.ngram_fd[i][2],
                     CounterGet(finder.word_fd, bg[1]),
                     CounterGet(finder.word_fd, bg[2]),
                     finder.N)

\* A plausible slip: the sort key without its minus sign (worst first).
SortsBefore_Ascending(x, y) ==
    \/ ScoreLess(x[2], y[2])
    \/ ScoreEq(x[2], y[2]) /\ TupleLess(x[1], y[1])

\* A plausible slip: ties left in table order (a stable sort on the score alone).
SortsBefore_ScoreOnly(x, y) == ScoreLess(y[2], x[2])

\* The sort key of score_ngrams, (-score, ngram): x goes before y.
SortsBefore(x, y) ==
    \/ ScoreLess(y[2], x[2])
    \/ ScoreEq(x[2], y[2]) /\ TupleLess(x[1], y[1])

\* sorted(): x enters an already sorted list after everything that does not
\* sort after it (stable).
RECURSIVE InsertSorted(_, _)
InsertSorted(x, s) ==
    IF s = <<>> THEN <<x>>
    ELSE IF SortsBefore(x, Head(s)) THEN <<x>> \o s
    ELSE <<Head(s)>> \o InsertSorted(x, Tail(s))

RECURSIVE Sorted(_)
Sorted(s) ==
    IF s = <<>> THEN <<>>
    ELSE InsertSorted(s[Len(s)], Sorted(SubSeq(s, 1, Len(s) - 1)))

\* score_ngrams(score_fn): the (ngram, score) pairs, best first; an exception of
\* the measure propagates.
score_ngrams(finder, m) ==
    LET n == Len(finder.ngram_fd)
        sc == [i \in 1..n |-> score_ngram(finder, m, i)]
    IN  IF \E i \in 1..n : sc[i].status = "raise"
        THEN sc[CHOOSE i \in 1..n : sc[i].status = "raise"
                                    /\ \A j \in 1..(i - 1) : sc[j].status = "ok"]
        ELSE Returned(Sorted([i \in 1..n |-> <<finder.ngram_fd[i][1], sc[i].value>>]))

\* s[:n] for n >= 0.
Prefix(s, n) == SubSeq(s, 1, IF n < Len(s) THEN n ELSE Len(s))

\* A plausible slip: the slice taken one short.
nbest_OffByOne(finder, m, n) ==
    LET r == score_ngrams(finder, m)
    IN  IF r.status = "raise" THEN r
        ELSE Returned([i \in 1..Len(Prefix(r.value, n - 1)) |-> r.value[i][1]])

\* nbest(score_fn, n): [p for p, s in score_ngrams(score_fn)[:n]].
nbest(finder, m, n) ==
    LET r == score_ngrams(finder, m)
    IN  IF r.status = "raise" THEN r
        ELSE Returned([i \in 1..Len(Prefix(r.value, n)) |-> r.value[i][1]])

\* ------------------------------------------------------------- the caller
Init ==
    /\ tokens = <<>>
    /\ bigrams = <<>>
    /\ bigram_freq = <<>>
    /\ op = "__init__"
    /\ args = NoArgs
    /\ result = Returned(<<>>)

\* tokens = tokenizer.basic_tokenize(text), for a text that yields one of lists.
Tokenize(lists) ==
    /\ \E t \in lists : tokens' = t
    /\ op' = "basic_tokenize"
    /\ args' = NoArgs
    /\ result' = Returned(tokens')
    /\ UNCHANGED <<bigrams, bigram_freq>>

basic_tokenize == Tokenize(TokenLists)

\* The same call in a run that only ranks: no extraction follows.
basic_tokenize_rank == Tokenize(RankTokenLists)

\* ----------------------------------------------------------- the analyzer
\* A plausible slip: the log assigned (self.bigrams = bigrams), not extended.
Extract_Replace(cap) ==
    LET bgs == nltk_bigrams(tokens)
    IN  /\ Len(bigrams) + Len(bgs) <= cap
        /\ bigrams' = bgs
        /\ bigram_freq' = CounterUpdate(bigram_freq, bgs)
        /\ op' = "extract_bigrams"
        /\ args' = NoArgs
        /\ result' = Returned(bgs)
        /\ UNCHANGED tokens

\* extract_bigrams(tokens), on an analyzer whose log stays within cap.
Extract(cap) ==
    LET bgs == nltk_bigrams(tokens)
    IN  /\ Len(bigrams) + Len(bgs) <= cap
        /\ bigrams' = bigrams \o bgs
        /\ bigram_freq' = CounterUpdate(bigram_freq, bgs)
        /\ op' = "extract_bigrams"
        /\ args' = NoArgs
        /\ result' = Returned(bgs)
        /\ UNCHANGED tokens

extract_bigrams == Extract(MaxLog)

\* The same call in a run that extracts and asks for the top bigrams only.
extract_bigrams_top == Extract(MaxTopLog)

get_top_bigrams ==
    \E n \in 0..MaxTopN :
        /\ op' = "get_top_bigrams"
        /\ args' = [n |-> n]
        /\ result' = Returned(most_common(bigram_freq, n))
        /\ UNCHANGED <<tokens, bigrams, bigram_freq>>

\* The order in which find_collocations fills its results dict.
MeasureOrder == <<"pmi", "chi_square", "likelihood_ratio", "student_t", "raw_freq">>

find_collocations_result(toks, n, min_freq) ==
    LET bigram_finder == apply_freq_filter(from_words(toks), min_freq)
        lists == [m \in Measures |-> nbest(bigram_finder, m, n)]
    IN  IF \E k \in 1..5 : lists[MeasureOrder[k]].status = "raise"
        THEN lists[MeasureOrder[CHOOSE k \in 1..5 :
                       /\ lists[MeasureOrder[k]].status = "raise"
                       /\ \A j \in 1..(k - 1) : lists[MeasureOrder[j]].status = "ok"]]
        ELSE Returned([m \in Measures |-> lists[m].value])

find_collocations ==
    \E n \in 0..MaxTopN, min_freq \in 1..MaxMinFreq :
        /\ op' = "find_collocations"
        /\ args' = [n |-> n, min_freq |-> min_freq]
        /\ result' = find_collocations_result(tokens, n, min_freq)
        /\ UNCHANGED <<tokens, bigrams, bigram_freq>>

\* The keys of measure_funcs.
measure_funcs == {"pmi", "chi_square", "likelihood_ratio", "student_t"}

MeasureNames == Measures \cup {"dice"}

\* A plausible slip: an unknown measure falls back to pmi (dict.get with a default).
calculate_bigram_scores_result_Default(toks, measure) ==
    LET bigram_finder == from_words(toks)
    IN  score_ngrams(bigram_finder, IF measure \in measure_funcs THEN measure ELSE "pmi")

calculate_bigram_scores_result(toks, measure) ==
    LET bigram_finder == from_words(toks)
    IN  IF measure \notin measure_funcs THEN Raised("ValueError")
        ELSE score_ngrams(bigram_finder, measure)

\* A plausible slip: the method extracts into the analyzer and scores the
\* cumulative table.
calculate_bigram_scores_Accumulating ==
    \E measure \in MeasureNames :
        LET bgs == nltk_bigrams(tokens)
            freq == CounterUpdate(bigram_freq, bgs)
        IN  /\ Len(bigrams) + Len(bgs) <= MaxLog
            /\ bigrams' = bigrams \o bgs
            /\ bigram_freq' = freq
            /\ op' = "calculate_bigram_scores"
            /\ args' = [measure |-> measure]
            /\ result' = IF measure \notin measure_funcs THEN Raised("ValueError")
                          ELSE score_ngrams([word_fd |-> CounterUpdate(<<>>, tokens),
                                             ngram_fd |-> freq,
                                             N |-> Len(tokens)], measure)
            /\ UNCHANGED tokens

calculate_bigram_scores ==
    \E measure \in MeasureNames :
        /\ op' = "calculate_bigram_scores"
        /\ args' = [measure |-> measure]
        /\ result' = calculate_bigram_scores_result(tokens, measure)
        /\ UNCHANGED <<tokens, bigrams, bigram_freq>>

\* ------------------------------------------------------ context lookup
\* A str is a sequence of one-character strings.
UpperCase == <<"A", "B", "C", "D", "E", "F", "G", "H", "I", "J", "K", "L", "M",
               "N", "O", "P", "Q", "R", "S", "T", "U", "V", "W", "X", "Y", "Z">>
LowerCase == <<"a", "b", "c", "d", "e", "f", "g", "h", "i", "j", "k", "l", "m",
               "n", "o", "p", "q", "r", "s", "t", "u", "v", "w", "x", "y", "z">>

\* str.lower()
Lower(str) ==
    [i \in 1..Len(str) |->
        IF \E k \in 1..Len(UpperCase) : UpperCase[k] = str[i]
        THEN LowerCase[CHOOSE k \in 1..Len(UpperCase) : UpperCase[k] = str[i]]
        ELSE str[i]]

\* A plausible slip: the phrase must be the whole sentence.
Contains_Whole(sub, str) == sub = str

\* A plausible slip: the phrase matched at word boundaries only (as \b...\b).
Contains_AtWordBoundary(sub, str) ==
    LET IsLetter(ch) == \E k \in 1..Len(LowerCase) : ch = LowerCase[k] \/ ch = UpperCase[k]
    IN  \E k \in 0..(Len(str) - Len(sub)) :
            /\ SubSeq(str, k + 1, k + Len(sub)) = sub
            /\ k = 0 \/ ~IsLetter(str[k])
            /\ k + Len(sub) = Len(str) \/ ~IsLetter(str[k + Len(sub) + 1])

\* sub in str
Contains(sub, str) ==
    \E k \in 0..(Len(str) - Len(sub)) : SubSeq(str, k + 1, k + Len(sub)) = sub

\* ' '.join(target_bigram)
JoinBigram(bg) == bg[1] \o <<" ">> \o bg[2]

\* The sentence lists nltk.sent_tokenize hands back for the texts tried.
SentenceLists ==
    { <<>>,
      <<<<"T", "h", "e", " ", "c", "a", "t", " ", "s", "a", "t", ".">>,
         <<"T", "h", "e", " ", "c", "a", "t", " ", "r", "a", "n", " ", "f", "a", "r", ".">>>>,
      <<<<"A", " ", "d", "o", "g", " ", "r", "a", "n", ".">>,
         <<"C", "a", "t", " ", "s", "a", "t", ",", " ", "c", "a", "t", " ", "s", "a", "t", ".">>,
         <<"c", "o", "n", "c", "a", "t", "s", "a", "t", "u", "r", "d", "a", "y">>,
         <<"T", "H", "E", " ", "C", "A", "T", " ", "S", "A", "T">>,
         <<"c", "o", "n", "c", "a", "t", " ", "s", "a", "t", "u", "r", "d", "a", "y">>>> }

ContextTargets ==
    { <<<<"c", "a", "t">>, <<"s", "a", "t">>>>,
      <<<<"T", "h", "e">>, <<"C", "a", "t">>>> }

\* The loop of analyze_bigram_context over sentences[1..k].
RECURSIVE ContextLoop(_, _, _)
ContextLoop(sentences, bigram_str, k) ==
    IF k = 0 THEN [occurrences |-> 0, sentences |-> <<>>, positions |-> <<>>]
    ELSE LET context == ContextLoop(sentences, bigram_str, k - 1)
         IN  IF Contains(Lower(bigram_str), Lower(sentences[k]))
             THEN [occurrences |-> context.occurrences + 1,
                   sentences |-> Append(context.sentences, sentences[k]),
                   positions |-> Append(context.positions, k - 1)]
             ELSE context

analyze_bigram_context ==
    \E sentences \in SentenceLists, target_bigram \in ContextTargets :
        /\ op' = "analyze_bigram_context"
        /\ args' = [sentences |-> sentences, target_bigram |-> target_bigram]
        /\ result' = Returned(ContextLoop(sentences, JoinBigram(target_bigram),
                                          Len(sentences)))
        /\ UNCHANGED <<tokens, bigrams, bigram_freq>>

\* ----------------------------------------------------------- bigram network
\* The network of create_bigram_network: one edge per bigram the filter keeps,
\* in the order of ngram_fd, and the words of those bigrams as nodes.  The
\* nodes list is list(set), in no fixed order; it is kept as the set.
create_bigram_network_result(toks, min_freq) ==
    LET bigram_finder == apply_freq_filter(from_words(toks), min_freq)
        fd == bigram_finder.ngram_fd
    IN  [nodes |-> {fd[i][1][1] : i \in 1..Len(fd)} \cup {fd[i][1][2] : i \in 1..Len(fd)},
         edges |-> [i \in 1..Len(fd) |->
                      [source |-> fd[i][1][1], target |-> fd[i][1][2], weight |-> fd[i][2]]]]

create_bigram_network ==
    \E min_freq \in 1..MaxMinFreq :
        /\ op' = "create_bigram_network"
        /\ args' = [min_freq |-> min_freq]
        /\ result' = Returned(create_bigram_network_result(tokens, min_freq))
        /\ UNCHANGED <<tokens, bigrams, bigram_freq>>

\* ---------------------------------------------------- summary statistics
RECURSIVE SumCounts(_)
SumCounts(c) == IF c = <<>> THEN 0 ELSE c[1][2] + SumCounts(Tail(c))

RECURSIVE SumSquares(_)
SumSquares(c) == IF c = <<>> THEN 0 ELSE c[1][2] * c[1][2] + SumSquares(Tail(c))

MaxCount(c) == CHOOSE v \in {c[i][2] : i \in 1..Len(c)} : \A i \in 1..Len(c) : c[i][2] <= v
MinCount(c) == CHOOSE v \in {c[i][2] : i \in 1..Len(c)} : \A i \in 1..Len(c) : c[i][2] >= v

\* float('nan'), in the shape of a score.
NaN == [kind |-> "nan", p |-> 0, q |-> 1, r |-> 1]

\* np.mean of the counts: nan (with a warning, no exception) for an empty list.
np_mean(c) == IF c = <<>> THEN NaN ELSE Frac("ratio", SumCounts(c), Len(c))

\* np.std of the counts (population): sqrt(mean(x^2) - mean(x)^2), kept as
\* [kind "sqrt", p, q] = sqrt(p / q); nan for an empty list.
np_std(c) ==
    IF c = <<>> THEN NaN
    ELSE Frac("sqrt", Len(c) * SumSquares(c) - SumCounts(c) * SumCounts(c), Len(c) * Len(c))

\* A plausible slip: total_bigrams taken from the Counter (len of the keys).
generate_bigram_statistics_result_TotalDistinct(toks) ==
    LET bgs == nltk_bigrams(toks)
        freq == CounterUpdate(<<>>, bgs)
    IN  [total_bigrams |-> Len(freq),
         unique_bigrams |-> Len(freq),
         avg_frequency |-> np_mean(freq),
         std_frequency |-> np_std(freq),
         max_frequency |-> IF freq # <<>> THEN MaxCount(freq) ELSE 0,
         min_frequency |-> IF freq # <<>> THEN MinCount(freq) ELSE 0,
         coverage |-> IF bgs # <<>> THEN Frac("ratio", Len(freq), Len(freq)) ELSE 0]

generate_bigram_statistics_result(toks) ==
    LET bgs == nltk_bigrams(toks)
        freq == CounterUpdate(<<>>, bgs)
    IN  [total_bigrams |-> Len(bgs),
         unique_bigrams |-> Len(freq),
         avg_frequency |-> np_mean(freq),
         std_frequency |-> np_std(freq),
         max_frequency |-> IF freq # <<>> THEN MaxCount(freq) ELSE 0,
         min_frequency |-> IF freq # <<>> THEN MinCount(freq) ELSE 0,
         coverage |-> IF bgs # <<>> THEN Frac("ratio", Len(freq), Len(bgs)) ELSE 0]

\* A plausible slip: the local Counter stored in self.bigram_freq.
generate_bigram_statistics_Shared ==
    /\ op' = "generate_bigram_statistics"
    /\ args' = NoArgs
    /\ result' = Returned(generate_bigram_statistics_result(tokens))
    /\ bigram_freq' = CounterUpdate(<<>>, nltk_bigrams(tokens))
    /\ UNCHANGED <<tokens, bigrams>>

generate_bigram_statistics ==
    /\ op' = "generate_bigram_statistics"
    /\ args' = NoArgs
    /\ result' = Returned(generate_bigram_statistics_result(tokens))
    /\ UNCHANGED <<tokens, bigrams, bigram_freq>>

\* ------------------------------------------------------------------ export
ExportLimit == 100

\* next((score for bg, score in scores_chi if bg == bigram), 0)
ScoreOf(scores, bigram) ==
    IF \E i \in 1..Len(scores) : scores[i][1] = bigram
    THEN scores[CHOOSE i \in 1..Len(scores) :
                    /\ scores[i][1] = bigram
                    /\ \A j \in 1..(i - 1) : scores[j][1] # bigram][2]
    ELSE 0

\* A plausible slip: the chi-square ranking taken under a frequency floor of 2
\* that the pmi ranking does not have.
export_rankings_ChiFiltered(toks) ==
    [pmi |-> calculate_bigram_scores_result(toks, "pmi"),
     chi_square |-> score_ngrams(apply_freq_filter(from_words(toks), 2), "chi_square")]

\* The two rankings export_results computes first.
export_rankings(toks) ==
    [pmi |-> calculate_bigram_scores_result(toks, "pmi"),
     chi_square |-> calculate_bigram_scores_result(toks, "chi_square")]

\* A plausible slip: frequency read from the finder of this call, not from the
\* analyzer's table.
export_results_result_OwnCounts(toks) ==
    LET scores_pmi == export_rankings(toks).pmi
        scores_chi == export_rankings(toks).chi_square
        top == Prefix(scores_pmi.value, ExportLimit)
    IN  IF scores_pmi.status = "raise" THEN scores_pmi
        ELSE IF scores_chi.status = "raise" THEN scores_chi
        ELSE Returned([i \in 1..Len(top) |->
                 [bigram |-> <<top[i][1][1], " ", top[i][1][2]>>,
                  word1 |-> top[i][1][1],
                  word2 |-> top[i][1][2],
                  frequency |-> CounterGet(from_words(toks).ngram_fd, top[i][1]),
                  pmi_score |-> top[i][2],
                  chi_square_score |-> ScoreOf(scores_chi.value, top[i][1])]])

\* The rows export_results puts in its DataFrame (writing the file is outside
\* the model); an exception of either ranking propagates.
export_results_result(toks) ==
    LET scores_pmi == export_rankings(toks).pmi
        scores_chi == export_rankings(toks).chi_square
        top == Prefix(scores_pmi.value, ExportLimit)
    IN  IF scores_pmi.status = "raise" THEN scores_pmi
        ELSE IF scores_chi.status = "raise" THEN scores_chi
        ELSE Returned([i \in 1..Len(top) |->
                 [bigram |-> <<top[i][1][1], " ", top[i][1][2]>>,
                  word1 |-> top[i][1][1],
                  word2 |-> top[i][1][2],
                  frequency |-> CounterGet(bigram_freq, top[i][1]),
                  pmi_score |-> top[i][2],
                  chi_square_score |-> ScoreOf(scores_chi.value, top[i][1])]])

export_results ==
    /\ op' = "export_results"
    /\ args' = NoArgs
    /\ result' = export_results_result(tokens)
    /\ UNCHANGED <<tokens, bigrams, bigram_freq>>

\* The methods of the analyzer, by name.
Methods == {"extract_bigrams", "get_top_bigrams", "find_collocations",
            "calculate_bigram_scores", "analyze_bigram_context",
            "create_bigram_network", "generate_bigram_statistics", "export_results"}

\* A plausible slip: extract_bigrams returns self.bigrams itself, so clearing
\* the returned list clears the log.
mutate_result_Aliased ==
    /\ op \in Methods
    /\ result.status = "ok"
    /\ op' = "mutate_result"
    /\ args' = [of |-> op]
    /\ result' = Returned(<<>>)
    /\ bigrams' = IF op = "extract_bigrams" THEN <<>> ELSE bigrams
    /\ UNCHANGED <<tokens, bigram_freq>>

\* The caller empties in place the object the last method returned
\* (list.clear(), dict.clear(), dropping the rows of the DataFrame).  Every
\* method returns an object built during the call: extract_bigrams its local
\* list, of which self.bigrams took the items by extend(); get_top_bigrams the
\* list most_common() builds; the others a new dict, list or DataFrame.  None is
\* self.bigrams or self.bigram_freq, so the analyzer keeps its state.
mutate_result ==
    /\ op \in Methods
    /\ result.status = "ok"
    /\ op' = "mutate_result"
    /\ args' = [of |-> op]
    /\ result' = Returned(<<>>)
    /\ UNCHANGED <<tokens, bigrams, bigram_freq>>

Next ==
    \/ basic_tokenize
    \/ extract_bigrams
    \/ get_top_bigrams
    \/ find_collocations
    \/ calculate_bigram_scores
    \/ analyze_bigram_context
    \/ create_bigram_network
    \/ generate_bigram_statistics
    \/ export_results
    \/ mutate_result

Spec == Init /\ [][Next]_vars

\* The rankings, the summary and the export applied to longer token lists on an
\* analyzer that extracted nothing.
NextRank ==
    \/ basic_tokenize_rank
    \/ find_collocations
    \/ calculate_bigram_scores
    \/ generate_bigram_statistics
    \/ export_results

SpecRank == Init /\ [][NextRank]_vars

\* Extraction and the frequency ranking alone, on an analyzer with a longer log.
NextTop ==
    \/ basic_tokenize
    \/ extract_bigrams_top
    \/ get_top_bigrams

SpecTop == Init /\ [][NextTop]_vars

\* ================================================================ claims
\* Counts taken directly from a token list, as the specification words them.
PairAt(toks, i) == <<toks[i], toks[i + 1]>>
PairsOf(toks) == {PairAt(toks, i) : i \in 1..(Len(toks) - 1)}
PairCount(toks, bg) == Cardinality({i \in 1..(Len(toks) - 1) : PairAt(toks, i) = bg})
WordCount(toks, w) == Cardinality({i \in 1..Len(toks) : toks[i] = w})
FirstPairIndex(toks, bg) ==
    CHOOSE i \in 1..(Len(toks) - 1) :
        PairAt(toks, i) = bg /\ \A j \in 1..(i - 1) : PairAt(toks, j) # bg
AllPairs == (RankTokens \cup {"the", "cat", "sat", "ran"}) \X (RankTokens \cup {"the", "cat", "sat", "ran"})

\* The score of bg under measure m from the counts of toks alone.
ScoreFrom(toks, m, bg) ==
    ApplyMeasure(m, PairCount(toks, bg), WordCount(toks, bg[1]), WordCount(toks, bg[2]),
                 Len(toks))

\* The bigrams of toks that pass the frequency filter.
Surviving(toks, min_freq) == {bg \in PairsOf(toks) : PairCount(toks, bg) >= min_freq}

Min(x, y) == IF x < y THEN x ELSE y
Elems(s) == {s[i] : i \in 1..Len(s)}
NoRepeats(s) == \A i, j \in 1..Len(s) : s[i] = s[j] => i = j

RankReturned == op = "find_collocations" /\ result.status = "ok"
RankAllReturned == op = "calculate_bigram_scores" /\ result.status = "ok"

\* C1: extract_bigrams returns exactly (tokens[i], tokens[i+1]) for i = 0..L-2, in
\* order: L-1 bigrams for L >= 1, none for L of 0 or 1, and only the bigrams of
\* this call, whatever earlier calls put in the log.
C1_ExtractReturnsAdjacentPairs ==
    op = "extract_bigrams" =>
        /\ result.status = "ok"
        /\ Len(result.value) = (IF Len(tokens) = 0 THEN 0 ELSE Len(tokens) - 1)
        /\ \A i \in 1..Len(result.value) : result.value[i] = <<tokens[i], tokens[i + 1]>>

\* A call on three tokens returned two different bigrams.
C1_Witness ==
    /\ op = "extract_bigrams"
    /\ Len(tokens) = 3
    /\ Len(result.value) = 2
    /\ result.value[1] # result.value[2]

\* C2: extraction accumulates: an extract_bigrams call on B appends the adjacent
\* pairs of B to the log and adds to each bigram's count its count among the
\* adjacent pairs of B, so that from a fresh analyzer A then B gives count(A) +
\* count(B), with no pair across the boundary.
C2_ExtractAccumulates ==
    [][op' = "extract_bigrams" =>
        /\ Len(bigrams') = Len(bigrams) + Len(tokens') - (IF Len(tokens') = 0 THEN 0 ELSE 1)
        /\ \A i \in 1..Len(bigrams) : bigrams'[i] = bigrams[i]
        /\ \A i \in 1..(Len(tokens') - 1) : bigrams'[Len(bigrams) + i] = PairAt(tokens', i)
        /\ \A bg \in AllPairs :
              CounterGet(bigram_freq', bg) = CounterGet(bigram_freq, bg) + PairCount(tokens', bg)
    ]_vars

\* Two calls on [a, b] left (a, b) counted twice and no (b, a).
C2_Witness ==
    /\ op = "extract_bigrams"
    /\ tokens = <<"a", "b">>
    /\ bigrams = <<<<"a", "b">>, <<"a", "b">>>>
    /\ bigram_freq = <<<<<<"a", "b">>, 2>>>>

\* C3: in every step of every operation the FrequencyTable only grows: no key is
\* removed and no count goes down.
C3_TableGrowsMonotonically ==
    [][\A i \in 1..Len(bigram_freq) :
          CounterGet(bigram_freq', bigram_freq[i][1]) >= bigram_freq[i][2]]_vars

\* A summary was computed on an analyzer whose table holds two bigrams none of
\* which is in the summarized tokens.
C3_Witness ==
    /\ op = "generate_bigram_statistics"
    /\ Len(bigram_freq) = 2
    /\ PairsOf(tokens) # {}
    /\ PairsOf(tokens) \cap CounterKeys(bigram_freq) = {}

\* C4 as first stated: rank and rank_all score and filter by the counts of the
\* analyzer's cumulative FrequencyTable: rank_all scores exactly the table's
\* keys, and rank lists a bigram exactly when the table has some key with count
\* >= min_freq.
C4_ScoresUseCumulativeTable ==
    bigrams # <<>> =>
        /\ RankAllReturned => {result.value[i][1] : i \in 1..Len(result.value)}
                                 = CounterKeys(bigram_freq)
        /\ RankReturned /\ args.n >= 1 =>
              \A m \in Measures :
                  /\ \A bg \in Elems(result.value[m]) :
                        CounterGet(bigram_freq, bg) >= args.min_freq
                  /\ (\E bg \in CounterKeys(bigram_freq) :
                        CounterGet(bigram_freq, bg) >= args.min_freq)
                     => result.value[m] # <<>>

\* C4 as amended: rank and rank_all score and filter by the counts of the token
\* list passed to the call, whatever the cumulative table holds: rank_all scores
\* exactly the adjacent pairs of tokens, each from its counts in tokens, and rank
\* lists only bigrams with count >= min_freq in tokens, and some when there are.
C4_ScoresUseCallTokens ==
    /\ RankAllReturned =>
          /\ {result.value[i][1] : i \in 1..Len(result.value)} = PairsOf(tokens)
          /\ \A i \in 1..Len(result.value) :
                result.value[i][2] = ScoreFrom(tokens, args.measure, result.value[i][1]).value
    /\ RankReturned /\ args.n >= 1 =>
          \A m \in Measures :
              /\ Elems(result.value[m]) \subseteq Surviving(tokens, args.min_freq)
              /\ Surviving(tokens, args.min_freq) # {} => result.value[m] # <<>>

\* rank_all scored the pairs of its tokens on an analyzer whose table holds other
\* bigrams only.
C4_Witness ==
    /\ RankAllReturned
    /\ result.value # <<>>
    /\ bigram_freq # <<>>
    /\ PairsOf(tokens) \cap CounterKeys(bigram_freq) = {}

C6_RankListsFilteredAndSized ==
    op = "find_collocations" =>
        /\ result.status = "ok"
        /\ \A m \in Measures :
              /\ Elems(result.value[m]) \subseteq Surviving(tokens, args.min_freq)
              /\ NoRepeats(result.value[m])
              /\ Len(result.value[m])
                    = Min(args.n, Cardinality(Surviving(tokens, args.min_freq)))

\* C7: every list rank returns is in non-increasing order of the measure's score,
\* and no bigram cut off by top_n scores higher than a listed one; for raw_freq
\* the order is by non-increasing joint count, and on [a, b, a, b, c] with
\* min_freq = 1 the bigram (a, b), of count 2, comes first.
C7_RankOrderedByScore ==
    RankReturned =>
        /\ \A m \in Measures :
              LET L == result.value[m]
                  S(bg) == ScoreFrom(tokens, m, bg).value
              IN  /\ \A i, j \in 1..Len(L) : i < j => ~ScoreLess(S(L[i]), S(L[j]))
                  /\ \A bg \in Surviving(tokens, args.min_freq) \ Elems(L) :
                        \A i \in 1..Len(L) : ~ScoreLess(S(L[i]), S(bg))
        /\ \A i, j \in 1..Len(result.value["raw_freq"]) :
              i < j => PairCount(tokens, result.value["raw_freq"][i])
                          >= PairCount(tokens, result.value["raw_freq"][j])
        /\ (tokens = TokensABABC /\ args.min_freq = 1 /\ args.n >= 1)
              => result.value["raw_freq"][1] = <<"a", "b">>

\* rank on [a, b, a, b, c] with top_n = 1 kept (a, b) and cut two bigrams.
C7_Witness ==
    /\ RankReturned
    /\ tokens = TokensABABC
    /\ args = [n |-> 1, min_freq |-> 1]
    /\ result.value["raw_freq"] = <<<<"a", "b">>>>

\* The positions in a ranking that hold equal scores come in the order before.
TiesOrdered(L, S(_), before(_, _)) ==
    \A i, j \in 1..Len(L) : (i < j /\ ScoreEq(S(L[i]), S(L[j]))) => before(L[i], L[j])

\* C8 as first stated: bigrams of equal score are listed in the order of their
\* first occurrence in the tokens.
C8_TiesInFirstSeenOrder ==
    /\ RankReturned =>
          \A m \in Measures :
              LET S(bg) == ScoreFrom(tokens, m, bg).value
                  before(x, y) == FirstPairIndex(tokens, x) < FirstPairIndex(tokens, y)
              IN  TiesOrdered(result.value[m], S, before)
    /\ RankAllReturned =>
          LET L == [i \in 1..Len(result.value) |-> result.value[i][1]]
              S(bg) == ScoreFrom(tokens, args.measure, bg).value
              before(x, y) == FirstPairIndex(tokens, x) < FirstPairIndex(tokens, y)
          IN  TiesOrdered(L, S, before)

\* C8 as amended: bigrams of equal score are listed in ascending order of the
\* bigram itself (the pair compared word by word), in rank and in rank_all, and
\* of tied bigrams the top_n cut keeps the smaller.
C8_TiesInTupleOrder ==
    /\ RankReturned =>
          \A m \in Measures :
              LET S(bg) == ScoreFrom(tokens, m, bg).value
              IN  /\ TiesOrdered(result.value[m], S, TupleLess)
                  /\ \A bg \in Surviving(tokens, args.min_freq) \ Elems(result.value[m]) :
                        \A x \in Elems(result.value[m]) :
                            ScoreEq(S(x), S(bg)) => TupleLess(x, bg)
    /\ RankAllReturned =>
          LET L == [i \in 1..Len(result.value) |-> result.value[i][1]]
              S(bg) == ScoreFrom(tokens, args.measure, bg).value
          IN  TiesOrdered(L, S, TupleLess)

\* rank on [b, a, b]: (b, a) occurs first, both score alike, (a, b) is listed first.
C8_Witness ==
    /\ RankReturned
    /\ tokens = <<"b", "a", "b">>
    /\ args = [n |-> 2, min_freq |-> 1]
    /\ result.value["raw_freq"] = <<<<"a", "b">>, <<"b", "a">>>>

OnceInTheCat == {<<"cat", "sat">>, <<"sat", "the">>, <<"cat", "ran">>}

IndexIn(L, x) == CHOOSE i \in 1..Len(L) : L[i] = x

\* C9 as first stated: on [the, cat, sat, the, cat, ran], (the, cat) has joint
\* count 2 and rank with pmi and min_freq = 1 lists it above every bigram that
\* occurs once.
C9_TheCatRankedAbove ==
    (RankReturned /\ tokens = TokensTheCat /\ args.min_freq = 1 /\ args.n >= 1) =>
        LET L == result.value["pmi"]
        IN  /\ PairCount(tokens, <<"the", "cat">>) = 2
            /\ <<"the", "cat">> \in Elems(L)
            /\ \A bg \in OnceInTheCat \cap Elems(L) :
                  IndexIn(L, <<"the", "cat">>) < IndexIn(L, bg)

\* C9 as amended: on the same tokens (the, cat) has joint count 2, and its PMI,
\* log2(joint_count * total / (count_w1 * count_w2)) with total the 6 tokens, is
\* log2(3), the PMI of each of the three bigrams that occur once; rank with pmi
\* and min_freq = 1 lists the four in tuple order, (the, cat) last.
C9_TheCatTiesWithTheRest ==
    /\ (RankReturned /\ tokens = TokensTheCat /\ args.min_freq = 1) =>
          /\ PairCount(tokens, <<"the", "cat">>) = 2
          /\ result.value["pmi"]
                = Prefix(<<<<"cat", "ran">>, <<"cat", "sat">>, <<"sat", "the">>,
                           <<"the", "cat">>>>, args.n)
    /\ (RankAllReturned /\ tokens = TokensTheCat /\ args.measure = "pmi") =>
          /\ Len(result.value) = 4
          /\ \A i \in 1..Len(result.value) :
                result.value[i][2] = [kind |-> "log2", p |-> 3, q |-> 1, r |-> 1]
          /\ result.value[4][1] = <<"the", "cat">>

\* rank_all with pmi scored the four bigrams of the example.
C9_Witness ==
    /\ RankAllReturned
    /\ tokens = TokensTheCat
    /\ args.measure = "pmi"
    /\ Len(result.value) = 4

\* C10: no call raises, whatever the tokens, top_n and min_freq (rank_all being
\* given one of the measures it supports).
C10_NeverRaises ==
    \/ op = "calculate_bigram_scores" /\ args.measure \notin measure_funcs
    \/ result.status = "ok"

\* C11: rank_all with a measure name that is not one of the association measures
\* fails with ValueError raised to the caller, whatever the tokens; it never
\* returns scores of a default or substituted measure.
C11_UnknownMeasureRaises ==
    (op = "calculate_bigram_scores" /\ args.measure \notin Measures) =>
        result = Raised("ValueError")

\* rank_all was given the name dice with tokens that pmi would have scored.
C11_Witness ==
    /\ op = "calculate_bigram_scores"
    /\ args.measure = "dice"
    /\ calculate_bigram_scores_result(tokens, "pmi").status = "ok"
    /\ calculate_bigram_scores_result(tokens, "pmi").value # <<>>
    /\ result.status = "raise"

\* C12: each of pmi, chi_square, likelihood_ratio, student_t and raw_freq is
\* accepted as the measure of rank_all and yields a (bigram, score) sequence, not
\* an error; for raw_freq the score of a bigram is joint_count / total_bigrams.
C12_FiveMeasuresAccepted ==
    (op = "calculate_bigram_scores" /\ args.measure \in Measures) =>
        /\ result.status = "ok"
        /\ {result.value[i][1] : i \in 1..Len(result.value)} = PairsOf(tokens)
        /\ args.measure = "raw_freq" =>
              \A i \in 1..Len(result.value) :
                  result.value[i][2] = Frac("ratio", PairCount(tokens, result.value[i][1]),
                                            Len(tokens) - 1)

\* The finder a rank or rank_all call builds from its tokens.
FinderOfCall ==
    IF op = "find_collocations" THEN apply_freq_filter(from_words(tokens), args.min_freq)
    ELSE from_words(tokens)

\* C13: PMI's undefined case cannot be reached from rank or rank_all: for every
\* bigram (w1, w2) that is scored, the counts of w1 and of w2 taken from the same
\* tokens are both >= the bigram's joint count >= 1, so count_w1 * count_w2 is
\* never zero and every PMI score is the logarithm of a positive ratio.
C13_PmiDenominatorNonZero ==
    /\ op \in {"find_collocations", "calculate_bigram_scores"} =>
          \A i \in 1..Len(FinderOfCall.ngram_fd) :
              LET bg == FinderOfCall.ngram_fd[i][1]
                  n_ii == FinderOfCall.ngram_fd[i][2]
              IN  /\ n_ii >= 1
                  /\ CounterGet(FinderOfCall.word_fd, bg[1]) >= n_ii
                  /\ CounterGet(FinderOfCall.word_fd, bg[2]) >= n_ii
    /\ (op = "calculate_bigram_scores" /\ args.measure = "pmi") =>
          /\ result.status = "ok"
          /\ \A i \in 1..Len(result.value) :
                result.value[i][2].p > 0 /\ result.value[i][2].q > 0

\* rank_all scored with pmi a bigram whose second word is the last token and
\* occurs nowhere else: its marginal count equals the joint count, 1.
C13_Witness ==
    /\ RankAllReturned
    /\ args.measure = "pmi"
    /\ tokens = <<"a", "b", "c">>
    /\ \E i \in 1..Len(result.value) :
          /\ result.value[i][1] = <<"b", "c">>
          /\ WordCount(tokens, "c") = PairCount(tokens, <<"b", "c">>)

\* The sentences and targets of the examples, as str values.
StrTheCatSat == <<"T", "h", "e", " ", "c", "a", "t", " ", "s", "a", "t", ".">>
StrTheCatRanFar ==
    <<"T", "h", "e", " ", "c", "a", "t", " ", "r", "a", "n", " ", "f", "a", "r", ".">>
StrConcatsaturday == <<"c", "o", "n", "c", "a", "t", "s", "a", "t", "u", "r", "d", "a", "y">>
StrConcatSaturday ==
    <<"c", "o", "n", "c", "a", "t", " ", "s", "a", "t", "u", "r", "d", "a", "y">>
TargetCatSat == <<<<"c", "a", "t">>, <<"s", "a", "t">>>>

LocateCalled == op = "analyze_bigram_context"

\* C14: locate returns positions = exactly the 0-based indices, strictly
\* increasing, of the sentences that contain w1 + " " + w2 as a case-insensitive
\* substring; sentences = those sentences in original case, in the same order;
\* occurrences = the number of matching sentences, a sentence with several
\* occurrences counting once; with no match, 0 and two empty sequences.  On
\* ["The cat sat.", "The cat ran far."] and (cat, sat): 1, [0], ["The cat sat."].
C14_LocateListsMatchingSentences ==
    LocateCalled =>
        LET S == args.sentences
            phrase == Lower(args.target_bigram[1] \o <<" ">> \o args.target_bigram[2])
            M == {k \in 0..(Len(S) - 1) : Contains(phrase, Lower(S[k + 1]))}
            r == result.value
        IN  /\ result.status = "ok"
            /\ Elems(r.positions) = M
            /\ \A i, j \in 1..Len(r.positions) : i < j => r.positions[i] < r.positions[j]
            /\ Len(r.sentences) = Len(r.positions)
            /\ \A i \in 1..Len(r.positions) : r.sentences[i] = S[r.positions[i] + 1]
            /\ r.occurrences = Cardinality(M)
            /\ M = {} => r = [occurrences |-> 0, sentences |-> <<>>, positions |-> <<>>]
            /\ (S = <<StrTheCatSat, StrTheCatRanFar>> /\ args.target_bigram = TargetCatSat)
                  => r = [occurrences |-> 1, sentences |-> <<StrTheCatSat>>,
                          positions |-> <<0>>]
            /\ (Len(S) = 5 /\ args.target_bigram = TargetCatSat)
                  => r.occurrences = 3 /\ r.positions = <<1, 3, 4>>

\* locate for (cat, sat) over five sentences listed three of them, among them
\* "Cat sat, cat sat." once and "THE CAT SAT" in its original case.
C14_Witness ==
    /\ LocateCalled
    /\ args.target_bigram = TargetCatSat
    /\ Len(args.sentences) = 5
    /\ result.value.occurrences = 3
    /\ result.value.sentences[2] = <<"T", "H", "E", " ", "C", "A", "T", " ", "S", "A", "T">>

\* C15 as first stated: matching is not token-boundary aware, and the target
\* (cat, sat), the phrase "cat sat", matches the sentence "concatsaturday".
C15_MatchesConcatsaturday ==
    (LocateCalled /\ args.target_bigram = TargetCatSat) =>
        \A k \in 1..Len(args.sentences) :
            args.sentences[k] = StrConcatsaturday => (k - 1) \in Elems(result.value.positions)

\* C15 as amended: matching is not token-boundary aware: the target (cat, sat),
\* the phrase "cat sat" with its space, matches the sentence "concat saturday",
\* where it lies inside two longer words; it does not match "concatsaturday",
\* which has no space between cat and sat.
C15_MatchesInsideLongerWords ==
    (LocateCalled /\ args.target_bigram = TargetCatSat) =>
        \A k \in 1..Len(args.sentences) :
            /\ args.sentences[k] = StrConcatSaturday
                  => (k - 1) \in Elems(result.value.positions)
            /\ args.sentences[k] = StrConcatsaturday
                  => (k - 1) \notin Elems(result.value.positions)

\* locate for (cat, sat) listed "concat saturday" and passed over "concatsaturday".
C15_Witness ==
    /\ LocateCalled
    /\ args.target_bigram = TargetCatSat
    /\ \E i \in 1..Len(result.value.sentences) : result.value.sentences[i] = StrConcatSaturday
    /\ \E k \in 1..Len(args.sentences) : args.sentences[k] = StrConcatsaturday

SummarizeCalled == op = "generate_bigram_statistics"

\* C16: summarize on a token sequence with fewer than two tokens returns
\* total_bigrams = 0, unique_bigrams = 0, avg_frequency = 0, std_frequency = 0,
\* max_frequency = 0, min_frequency = 0 and coverage = 0.
C16_EmptySummaryAllZero ==
    (SummarizeCalled /\ Len(tokens) < 2) =>
        /\ result.status = "ok"
        /\ result.value.total_bigrams = 0
        /\ result.value.unique_bigrams = 0
        /\ result.value.avg_frequency.kind # "nan" /\ result.value.avg_frequency.p = 0
        /\ result.value.std_frequency.kind # "nan" /\ result.value.std_frequency.p = 0
        /\ result.value.max_frequency = 0
        /\ result.value.min_frequency = 0
        /\ result.value.coverage = 0

\* C17: for tokens with at least one bigram, summarize reports total_bigrams =
\* the sum of all bigram counts (the number of bigram occurrences, repeats
\* included), unique_bigrams = the number of distinct bigrams, coverage =
\* unique_bigrams / total_bigrams, max_frequency and min_frequency = the largest
\* and the smallest count; hence 1 <= min_frequency <= max_frequency,
\* unique_bigrams <= total_bigrams and 0 < coverage <= 1.
C17_SummaryCounts ==
    (SummarizeCalled /\ Len(tokens) >= 2) =>
        LET r == result.value
            counts == {PairCount(tokens, bg) : bg \in PairsOf(tokens)}
        IN  /\ result.status = "ok"
            /\ r.total_bigrams = Len(tokens) - 1
            /\ r.total_bigrams
                  = Cardinality({<<i, bg>> \in (1..(Len(tokens) - 1)) \X PairsOf(tokens) :
                                    PairAt(tokens, i) = bg})
            /\ r.unique_bigrams = Cardinality(PairsOf(tokens))
            /\ r.coverage.kind = "ratio"
            /\ r.coverage.p * r.total_bigrams = r.unique_bigrams * r.coverage.q
            /\ r.max_frequency \in counts /\ \A c \in counts : c <= r.max_frequency
            /\ r.min_frequency \in counts /\ \A c \in counts : c >= r.min_frequency
            /\ 1 <= r.min_frequency /\ r.min_frequency <= r.max_frequency
            /\ r.unique_bigrams <= r.total_bigrams
            /\ 0 < r.coverage.p /\ r.coverage.p <= r.coverage.q

\* summarize on [a, b, a, b, c]: four occurrences of three bigrams, (a, b) twice.
C17_Witness ==
    /\ SummarizeCalled
    /\ tokens = TokensABABC
    /\ result.value.total_bigrams = 4
    /\ result.value.unique_bigrams = 3
    /\ result.value.max_frequency = 2
    /\ result.value.min_frequency = 1
    /\ result.value.coverage = [kind |-> "ratio", p |-> 3, q |-> 4, r |-> 1]

ExportCalled == op = "export_results"

\* C18: export produces exactly min(100, number of distinct bigrams of the
\* tokens) records, one per bigram and none repeated; they are the first 100
\* entries of rank_all with pmi and no frequency filter, in the same order, so
\* that pmi_score does not increase down the sequence.
C18_ExportTopHundredByPmi ==
    ExportCalled =>
        LET ranking == calculate_bigram_scores_result(tokens, "pmi")
            rows == result.value
        IN  /\ result.status = "ok"
            /\ Len(rows) = Min(ExportLimit, Cardinality(PairsOf(tokens)))
            /\ NoRepeats([i \in 1..Len(rows) |-> <<rows[i].word1, rows[i].word2>>])
            /\ \A i \in 1..Len(rows) :
                  /\ <<rows[i].word1, rows[i].word2>> = ranking.value[i][1]
                  /\ rows[i].pmi_score = ranking.value[i][2]
            /\ \A i, j \in 1..Len(rows) :
                  i < j => ~ScoreLess(rows[i].pmi_score, rows[j].pmi_score)

ExportReturned == ExportCalled /\ result.status = "ok"

\* C19: in every ExportRecord word1 and word2 are the two components of the
\* bigram, chi_square_score is the bigram's score in the chi-square ranking of
\* the same tokens, and frequency is the bigram's count in the analyzer's
\* cumulative FrequencyTable at the time of the call, 0 if the table does not
\* hold the bigram.
C19_ExportRecordFields ==
    ExportReturned =>
        \A i \in 1..Len(result.value) :
            LET row == result.value[i]
                bg == <<row.word1, row.word2>>
            IN  /\ bg \in PairsOf(tokens)
                /\ row.bigram = <<bg[1], " ", bg[2]>>
                /\ row.chi_square_score = ScoreFrom(tokens, "chi_square", bg).value
                /\ row.frequency = CounterGet(bigram_freq, bg)
                /\ row.frequency = Cardinality({k \in 1..Len(bigrams) : bigrams[k] = bg})
                /\ bg \notin CounterKeys(bigram_freq) => row.frequency = 0

\* export on [a, b, a] after two extractions of [a, b]: (a, b) is exported with
\* frequency 2, (b, a) with frequency 0.
C19_Witness ==
    /\ ExportReturned
    /\ tokens = TokensABA
    /\ \E i, j \in 1..Len(result.value) :
          /\ result.value[i].word1 = "a" /\ result.value[i].frequency = 2
          /\ result.value[j].word1 = "b" /\ result.value[j].frequency = 0

\* C20: only extract_bigrams changes analyzer state: every step of
\* get_top_bigrams, find_collocations, calculate_bigram_scores (also when it
\* raises on an unknown measure), analyze_bigram_context,
\* generate_bigram_statistics, create_bigram_network and export_results leaves
\* the cumulative log and the FrequencyTable as they were, and so does a step in
\* which the caller mutates a returned result.
C20_OnlyExtractChangesState ==
    [][op' # "extract_bigrams" => (bigrams' = bigrams /\ bigram_freq' = bigram_freq)]_vars

\* The list extract_bigrams returned was emptied by the caller, and the log and
\* the table still hold what was extracted.
C20_Witness ==
    /\ op = "mutate_result"
    /\ args.of = "extract_bigrams"
    /\ result.value = <<>>
    /\ bigrams = nltk_bigrams(tokens)
    /\ Len(bigrams) = 2
    /\ Len(bigram_freq) = 2

\* The number of occurrences of bg in the cumulative log.
LogCount(bg) == Cardinality({k \in 1..Len(bigrams) : bigrams[k] = bg})

\* C21: in every reachable state the FrequencyTable is the multiset count of the
\* cumulative log: bigram_freq[b] is the number of occurrences of b in the log
\* for every bigram b, every key has count >= 1 (and is held once), and the
\* counts sum to the length of the log; a fresh instance has both empty.
C21_TableCountsTheLog ==
    /\ \A bg \in AllPairs : CounterGet(bigram_freq, bg) = LogCount(bg)
    /\ \A i \in 1..Len(bigram_freq) :
          /\ bigram_freq[i][2] >= 1
          /\ bigram_freq[i][1] \in Elems(bigrams)
          /\ \A j \in 1..Len(bigram_freq) : bigram_freq[i][1] = bigram_freq[j][1] => i = j
    /\ SumCounts(bigram_freq) = Len(bigrams)
    /\ op = "__init__" => (bigrams = <<>> /\ bigram_freq = <<>>)

\* Two extractions left a log of two different bigrams, each counted once, and
\* a later call of another method found them so.
C21_Witness ==
    /\ op \in Methods \ {"extract_bigrams"}
    /\ Len(bigrams) = 2
    /\ bigrams[1] # bigrams[2]
    /\ bigrams # nltk_bigrams(tokens)
    /\ bigram_freq = <<<<bigrams[1], 1>>, <<bigrams[2], 1>>>>

\* C22: whatever extract_bigrams calls came before export_results(tokens), every
\* ExportRecord's frequency is the joint count of its bigram in the tokens passed
\* to export_results, the count its pmi_score and chi_square_score were computed
\* from, and so is >= 1.
C22_ExportFrequencyIsCallCount ==
    ExportReturned =>
        \A i \in 1..Len(result.value) :
            /\ result.value[i].frequency
                  = PairCount(tokens, <<result.value[i].word1, result.value[i].word2>>)
            /\ result.value[i].frequency >= 1

\* The bigrams of a ranking.
Ranked(scores) == {scores[i][1] : i \in 1..Len(scores)}

\* C23: in export_results the fall-back 0 for chi_square_score is never taken:
\* the pmi ranking and the chi-square ranking are computed over the same tokens
\* with no frequency filter, so they hold the same set of bigrams and every
\* exported bigram has its entry in the chi-square ranking.
C23_ChiFallbackNeverTaken ==
    ExportReturned =>
        LET scores_pmi == export_rankings(tokens).pmi.value
            scores_chi == export_rankings(tokens).chi_square.value
        IN  /\ Ranked(scores_pmi) = Ranked(scores_chi)
            /\ Ranked(scores_chi) = PairsOf(tokens)
            /\ \A i \in 1..Len(result.value) :
                  LET bg == <<result.value[i].word1, result.value[i].word2>>
                  IN  /\ bg \in Ranked(scores_chi)
                      /\ result.value[i].chi_square_score
                            = ScoreFrom(tokens, "chi_square", bg).value

\* export on [a, b, a, b, c]: three records, each with the chi-square score of
\* its bigram; that of (a, b), which occurs twice, is 5.
C23_Witness ==
    /\ ExportReturned
    /\ tokens = TokensABABC
    /\ Len(result.value) = 3
    /\ \E i \in 1..3 :
          /\ result.value[i].word1 = "a"
          /\ result.value[i].chi_square_score = [kind |-> "ratio", p |-> 5, q |-> 1, r |-> 1]

\* The place in the log where bg was first encountered.
FirstLogIndex(bg) ==
    CHOOSE k \in 1..Len(bigrams) : bigrams[k] = bg /\ \A j \in 1..(k - 1) : bigrams[j] # bg

\* C24: after any sequence of extract_bigrams calls, get_top_bigrams(n) returns
\* min(n, number of distinct bigrams) pairs (bigram, count), count being the
\* bigram's cumulative count over all extractions, in order of non-increasing
\* count with equal counts in first-encountered order, and no omitted bigram has
\* a count greater than a returned one; on a fresh analyzer it returns [].
C24_TopBigramsByCumulativeCount ==
    op = "get_top_bigrams" =>
        LET L == result.value
        IN  /\ result.status = "ok"
            /\ Len(L) = Min(args.n, Cardinality(Elems(bigrams)))
            /\ NoRepeats([i \in 1..Len(L) |-> L[i][1]])
            /\ \A i \in 1..Len(L) :
                  /\ L[i][1] \in Elems(bigrams)
                  /\ L[i][2] = LogCount(L[i][1])
            /\ \A i, j \in 1..Len(L) :
                  i < j => \/ L[i][2] > L[j][2]
                           \/ /\ L[i][2] = L[j][2]
                              /\ FirstLogIndex(L[i][1]) < FirstLogIndex(L[j][1])
            /\ \A bg \in Elems(bigrams) \ {L[i][1] : i \in 1..Len(L)} :
                  \A i \in 1..Len(L) : LogCount(bg) <= L[i][2]
            /\ bigrams = <<>> => L = <<>>

\* After [a, b, a] and then [b, a] were extracted, get_top_bigrams(2) put (b, a),
\* encountered second and counted twice, before (a, b).
C24_Witness ==
    /\ op = "get_top_bigrams"
    /\ args.n = 2
    /\ bigrams = <<<<"a", "b">>, <<"b", "a">>, <<"b", "a">>>>
    /\ result.value = <<<<<<"b", "a">>, 2>>, <<<<"a", "b">>, 1>>>>

====
